---- MODULE Spec2Model ----
(***************************************************************************)
(* Model of src/noise_removal.cpp: main() opens an input container and a   *)
(* decoder, a Speex preprocessor, an MP3 encoder and an output container,  *)
(* then loops read -> decode -> denoise -> encode -> write, writes the     *)
(* trailer and frees its resources.  The FFmpeg and Speex libraries are    *)
(* the environment: every library call whose result the code tests may     *)
(* succeed or fail, the decoder and the encoder may hold output back       *)
(* (internal buffering), and the input file is any bounded packet sequence.*)
(***************************************************************************)
EXTENDS Integers, Sequences, FiniteSets, TLC

\* ------------------------------------------------------------- bounds
\* Most packets the input file holds.
MaxPackets == 2
\* Most samples per channel one packet decodes to, over all its frames.
MaxPacketSamples == 2

\* ------------------------------------------------------------- values
NoExit == 0 - 1
Null == [n |-> 0, src |-> 0]
NoPacket == [stream_index |-> -1, ok |-> FALSE, frames |-> << >>, src |-> 0]
NoContext == [frame_size |-> 0, channels |-> 0, sample_fmt |-> "none", delay |-> 0]
NoCall == [len |-> 0, valid |-> 0, pad |-> 0, channels |-> 0, sample_fmt |-> "none",
           group |-> << >>, src |-> 0]

\* The sample formats of the decoder profiles: interleaved 16-bit integer
\* "s16" (the format speex_preprocess_run reads) and planar float "fltp" (what
\* the MP3 and AAC decoders deliver).
BytesPerSample(fmt) == IF fmt = "s16" THEN 2 ELSE 4
IsPlanar(fmt) == fmt = "fltp"

\* The stream layouts of an input file: the types of its streams in order.
StreamLayouts == {<< "video" >>, << "audio" >>, << "video", "audio" >>}

\* The frames one decodable packet may hold: every sequence of frame lengths
\* (each at least 1) of at most `total` samples.
RECURSIVE FrameSeqs(_)
FrameSeqs(total) ==
    {<< >>} \cup UNION {{<< n >> \o rest : rest \in FrameSeqs(total - n)} : n \in 1..total}

\* The packets av_read_frame may deliver from a file with nStreams streams
\* whose audio stream is `audio`: a packet of another stream (its payload is
\* never looked at), an audio packet the decoder rejects, or an audio packet
\* that decodes to some frames.
Packets(nStreams, audio) ==
    {[stream_index |-> i, ok |-> FALSE, frames |-> << >>] : i \in 0..(nStreams - 1)}
    \cup {[stream_index |-> audio, ok |-> TRUE, frames |-> f] :
             f \in FrameSeqs(MaxPacketSamples)}

\* What a decoder context may report once opened: frame_size, channels and
\* sample format of the stream, and how many frames the decoder holds back
\* until it is flushed (its delay).
DecoderProfiles ==
    {[frame_size |-> 2, channels |-> 2, sample_fmt |-> "s16", delay |-> 0],
     [frame_size |-> 2, channels |-> 1, sample_fmt |-> "s16", delay |-> 0],
     [frame_size |-> 1, channels |-> 2, sample_fmt |-> "fltp", delay |-> 1],
     [frame_size |-> 2, channels |-> 1, sample_fmt |-> "fltp", delay |-> 0]}

\* What the opened encoder may report: its frame_size and how many packets
\* it holds back until it is flushed.
EncoderProfiles ==
    {[frame_size |-> 2, delay |-> 0], [frame_size |-> 2, delay |-> 1]}

\* The process exit status of `return r` from main: the low 8 bits.
ExitStatus(r) == r % 256

RECURSIVE SumLens(_)
SumLens(s) == IF s = << >> THEN 0 ELSE Head(s).n + SumLens(Tail(s))

VARIABLES
    pc,                 \* position in main()
    exitCode,           \* process exit status, NoExit while running
    failedAt,           \* the step whose failure ended the run, "" if none
    held,               \* resources acquired, in acquisition order
    released,           \* resources released, in release order
    streams,            \* format_context->streams: stream types
    audio_stream_index, \* line 43
    codec_context,      \* decoder context fields
    out_codec_context,  \* encoder context fields
    preprocess_state,   \* frame size the Speex state was initialised with (0: none)
    nRead,              \* packets av_read_frame has delivered
    readError,          \* av_read_frame ended the loop with an error, not EOF
    packet,             \* the packet being processed
    decQ,               \* frames the decoder holds and has not yet output
    frame,              \* the frame being processed
    encQ,               \* packets the encoder holds and has not yet output
    out_packet,         \* the encoded packet being written
    muxLog,             \* what was written to the output, in order
    dnCalls, dnLast,    \* calls of speex_preprocess_run, and the last one
    encCalls, encLast,  \* calls of avcodec_send_frame, and the last one
    totalDecoded,       \* samples per channel of all frames the decoder decoded
    totalToEnc,         \* samples per channel handed to avcodec_send_frame
    decFails, encFails, \* failed avcodec_send_packet / avcodec_send_frame calls
    nSkipped            \* packets of other streams that were only unreferenced

vars == << pc, exitCode, failedAt, held, released, streams, audio_stream_index,
           codec_context, out_codec_context, preprocess_state, nRead, readError,
           packet, decQ, frame, encQ, out_packet, muxLog, dnCalls, dnLast,
           encCalls, encLast, totalDecoded, totalToEnc, decFails, encFails,
           nSkipped >>

openVars == << streams, audio_stream_index, codec_context, out_codec_context,
               preprocess_state >>
loopVars == << nRead, readError, packet, decQ, frame, encQ, out_packet >>
histVars == << dnCalls, dnLast, encCalls, encLast, totalDecoded, totalToEnc,
               decFails, encFails, nSkipped >>

Init ==
    /\ pc = "check_args"
    /\ exitCode = NoExit
    /\ failedAt = ""
    /\ held = << >>
    /\ released = << >>
    /\ streams = << >>
    /\ audio_stream_index = -1
    /\ codec_context = NoContext
    /\ out_codec_context = NoContext
    /\ preprocess_state = 0
    /\ nRead = 0
    /\ readError = FALSE
    /\ packet = NoPacket
    /\ decQ = << >>
    /\ frame = Null
    /\ encQ = << >>
    /\ out_packet = Null
    /\ muxLog = << >>
    /\ dnCalls = 0
    /\ dnLast = NoCall
    /\ encCalls = 0
    /\ encLast = NoCall
    /\ totalDecoded = 0
    /\ totalToEnc = 0
    /\ decFails = 0
    /\ encFails = 0
    /\ nSkipped = 0

\* ------------------------------------------------------------- opening
\* The slip of an error path that returns 0: ReturnError with the status of
\* success.  Used to check that C7 depends on the early returns' status.
\*
\* An early `return -1` (lines 22, 33, 39, 54, 62, 70, 90, 97, 104, 118, 134,
\* 141): the process exits at once; `acquired` is what the failing step had
\* allocated before it returned.  Nothing is released on these paths.
ReturnErrorAsSuccess(at, acquired) ==
    /\ pc = at
    /\ pc' = "exit"
    /\ exitCode' = ExitStatus(0)
    /\ failedAt' = at
    /\ held' = held \o acquired
    /\ UNCHANGED << released, openVars, loopVars, muxLog, histVars >>

ReturnError(at, acquired) ==
    /\ pc = at
    /\ pc' = "exit"
    /\ exitCode' = ExitStatus(-1)
    /\ failedAt' = at
    /\ held' = held \o acquired
    /\ UNCHANGED << released, openVars, loopVars, muxLog, histVars >>

\* A step of the opening sequence that succeeds, acquiring `acquired`.
Advance(at, to, acquired) ==
    /\ pc = at
    /\ pc' = to
    /\ held' = held \o acquired
    /\ UNCHANGED << exitCode, failedAt, released, loopVars, histVars >>

\* Lines 20-23: argc < 3.
CheckArgsFail == ReturnError("check_args", << >>)
CheckArgsOk ==
    /\ Advance("check_args", "open_input", << >>)
    /\ UNCHANGED << openVars, muxLog >>

\* Lines 30-34: avformat_open_input.
OpenInputFail == ReturnError("open_input", << >>)
OpenInputOk ==
    /\ Advance("open_input", "find_stream_info", << "format_context" >>)
    /\ UNCHANGED << openVars, muxLog >>

\* Lines 37-40: avformat_find_stream_info fills format_context->streams.
FindStreamInfoFail == ReturnError("find_stream_info", << >>)
FindStreamInfoOk(layout) ==
    /\ Advance("find_stream_info", "find_audio_stream", << >>)
    /\ streams' = layout
    /\ UNCHANGED << audio_stream_index, codec_context, out_codec_context,
                    preprocess_state, muxLog >>

\* Lines 43-49: the index of the first audio stream, -1 if there is none.
FirstAudio(s) ==
    LET audio == {i \in 0..(Len(s) - 1) : s[i + 1] = "audio"}
    IN IF audio = {} THEN -1 ELSE CHOOSE i \in audio : \A j \in audio : i <= j

\* Lines 52-55: no audio stream.
NoAudioStream ==
    /\ FirstAudio(streams) = -1
    /\ ReturnError("find_audio_stream", << >>)
FindAudioStream ==
    /\ FirstAudio(streams) # -1
    /\ Advance("find_audio_stream", "find_decoder", << >>)
    /\ audio_stream_index' = FirstAudio(streams)
    /\ UNCHANGED << streams, codec_context, out_codec_context, preprocess_state,
                    muxLog >>

\* Lines 58-63: avcodec_find_decoder.
FindDecoderFail == ReturnError("find_decoder", << >>)
FindDecoderOk ==
    /\ Advance("find_decoder", "open_decoder", << >>)
    /\ UNCHANGED << openVars, muxLog >>

\* Lines 66-71: the decoder context is allocated, filled from the stream's
\* parameters and opened; the stream decides its fields.
OpenDecoderFail == ReturnError("open_decoder", << "codec_context" >>)
OpenDecoderOk(profile) ==
    /\ Advance("open_decoder", "init_preprocess", << "codec_context" >>)
    /\ codec_context' = profile
    /\ UNCHANGED << streams, audio_stream_index, out_codec_context,
                    preprocess_state, muxLog >>

\* Lines 74-82: packet and frame are allocated and the Speex state is
\* initialised with the decoder context's frame_size.
InitPreprocess ==
    /\ Advance("init_preprocess", "alloc_output",
               << "packet", "frame", "preprocess_state" >>)
    /\ preprocess_state' = codec_context.frame_size
    /\ UNCHANGED << streams, audio_stream_index, codec_context, out_codec_context,
                    muxLog >>

\* Lines 85-91: avformat_alloc_output_context2.
AllocOutputFail == ReturnError("alloc_output", << >>)
AllocOutputOk ==
    /\ Advance("alloc_output", "find_encoder", << "output_format_context" >>)
    /\ UNCHANGED << openVars, muxLog >>

\* Lines 94-98: avcodec_find_encoder(AV_CODEC_ID_MP3).
FindEncoderFail == ReturnError("find_encoder", << >>)
FindEncoderOk ==
    /\ Advance("find_encoder", "new_stream", << >>)
    /\ UNCHANGED << openVars, muxLog >>

\* Lines 101-105: avformat_new_stream.
NewStreamFail == ReturnError("new_stream", << >>)
NewStreamOk ==
    /\ Advance("new_stream", "open_encoder", << >>)
    /\ UNCHANGED << openVars, muxLog >>

\* Line 110-111: AV_CH_LAYOUT_STEREO has two channels.
StereoChannels == 2

\* Line 112: the MP3 encoder's first supported sample format.
EncoderFormat == "s32p"

\* Lines 108-119: the encoder context is allocated, set to stereo and to the
\* encoder's first sample format, and opened; opening fixes its frame_size.
OpenEncoderFail == ReturnError("open_encoder", << "out_codec_context" >>)
OpenEncoderOk(profile) ==
    /\ Advance("open_encoder", "open_output", << "out_codec_context" >>)
    /\ out_codec_context' =
           [frame_size |-> profile.frame_size, channels |-> StereoChannels,
            sample_fmt |-> EncoderFormat, delay |-> profile.delay]
    /\ UNCHANGED << streams, audio_stream_index, codec_context, preprocess_state,
                    muxLog >>

\* Lines 131-136: avio_open of the output file.
OpenOutputFail == ReturnError("open_output", << >>)
OpenOutputOk ==
    /\ Advance("open_output", "write_header", << "output_file" >>)
    /\ UNCHANGED << openVars, muxLog >>

\* Lines 139-145: avformat_write_header, then the output packet is allocated.
WriteHeaderFail == ReturnError("write_header", << >>)
WriteHeaderOk ==
    /\ Advance("write_header", "read", << "out_packet" >>)
    /\ muxLog' = Append(muxLog, [kind |-> "header", src |-> 0])
    /\ UNCHANGED openVars

\* ------------------------------------------------------------- main loop
\* Line 148: av_read_frame delivers the next packet of the file, which holds
\* `limit` packets at most.
ReadFrame(pkt, limit) ==
    /\ pc = "read"
    /\ nRead < limit
    /\ nRead' = nRead + 1
    /\ packet' = [stream_index |-> pkt.stream_index, ok |-> pkt.ok,
                  frames |-> pkt.frames, src |-> nRead + 1]
    /\ pc' = "packet"
    /\ UNCHANGED << exitCode, failedAt, held, released, openVars, readError, decQ,
                    frame, encQ, out_packet, muxLog, histVars >>

\* Line 148: av_read_frame < 0 at the end of a file of `n` packets; the loop
\* ends and nothing more is asked of the decoder or the encoder.
ReadEof(n) ==
    /\ pc = "read"
    /\ nRead = n
    /\ pc' = "trailer"
    /\ UNCHANGED << exitCode, failedAt, held, released, openVars, loopVars, muxLog,
                    histVars >>

\* The slip of treating a read error as fatal: an early return -1.  Used to
\* check that C16 depends on the loop condition of line 148.
ReadErrorFatal ==
    /\ pc = "read"
    /\ readError' = TRUE
    /\ pc' = "exit"
    /\ exitCode' = ExitStatus(-1)
    /\ failedAt' = "read"
    /\ UNCHANGED << held, released, openVars, nRead, packet, decQ, frame, encQ,
                    out_packet, muxLog, histVars >>

\* Line 148: av_read_frame < 0 for a read error: the same loop exit.
ReadError ==
    /\ pc = "read"
    /\ readError' = TRUE
    /\ pc' = "trailer"
    /\ UNCHANGED << exitCode, failedAt, held, released, openVars, nRead, packet,
                    decQ, frame, encQ, out_packet, muxLog, histVars >>

\* The slip of a missing stream_index check: the packet of another stream is
\* sent to the audio decoder, which rejects it.  Used to check that C12
\* depends on line 149.
SkipPacketUnchecked ==
    /\ pc = "packet"
    /\ packet.stream_index # audio_stream_index
    /\ decFails' = decFails + 1
    /\ packet' = NoPacket
    /\ pc' = "read"
    /\ UNCHANGED << exitCode, failedAt, held, released, openVars, nRead, readError,
                    decQ, frame, encQ, out_packet, muxLog, dnCalls, dnLast, encCalls,
                    encLast, totalDecoded, totalToEnc, encFails, nSkipped >>

\* Lines 149, 165: a packet of another stream is only unreferenced.
SkipPacket ==
    /\ pc = "packet"
    /\ packet.stream_index # audio_stream_index
    /\ packet' = NoPacket
    /\ nSkipped' = nSkipped + 1
    /\ pc' = "read"
    /\ UNCHANGED << exitCode, failedAt, held, released, openVars, nRead, readError,
                    decQ, frame, encQ, out_packet, muxLog, dnCalls, dnLast, encCalls,
                    encLast, totalDecoded, totalToEnc, decFails, encFails >>

\* Lines 150, 165: avcodec_send_packet fails; the packet is unreferenced and
\* the loop goes on.
SendPacketFail ==
    /\ pc = "packet"
    /\ packet.stream_index = audio_stream_index
    /\ ~packet.ok
    /\ decFails' = decFails + 1
    /\ packet' = NoPacket
    /\ pc' = "read"
    /\ UNCHANGED << exitCode, failedAt, held, released, openVars, nRead, readError,
                    decQ, frame, encQ, out_packet, muxLog, dnCalls, dnLast, encCalls,
                    encLast, totalDecoded, totalToEnc, encFails, nSkipped >>

\* The slip of a sign in the tag: later packets get smaller tags.  Used to
\* check that C11 depends on the tags following the input order.
FramesOfNegated(pkt) ==
    [i \in 1..Len(pkt.frames) |-> [n |-> pkt.frames[i], src |-> 0 - pkt.src]]

\* The frames a packet decodes to, each tagged with the packet it comes from;
\* av_read_frame delivers a stream's packets in timestamp order, so the tag
\* also orders the timestamps the decoder and the encoder pass on.
FramesOf(pkt) == [i \in 1..Len(pkt.frames) |-> [n |-> pkt.frames[i], src |-> pkt.src]]

\* Line 150: avcodec_send_packet succeeds; the decoder now holds the packet's
\* frames behind those it already held.
SendPacketOk ==
    /\ pc = "packet"
    /\ packet.stream_index = audio_stream_index
    /\ packet.ok
    /\ decQ' = decQ \o FramesOf(packet)
    /\ totalDecoded' = totalDecoded + SumLens(FramesOf(packet))
    /\ pc' = "receive_frame"
    /\ UNCHANGED << exitCode, failedAt, held, released, openVars, nRead, readError,
                    packet, frame, encQ, out_packet, muxLog, dnCalls, dnLast,
                    encCalls, encLast, totalToEnc, decFails, encFails, nSkipped >>

\* Line 151: avcodec_receive_frame returns the decoder's oldest frame, when
\* the decoder holds more frames than its delay.
ReceiveFrameOk ==
    /\ pc = "receive_frame"
    /\ Len(decQ) > codec_context.delay
    /\ frame' = Head(decQ)
    /\ decQ' = Tail(decQ)
    /\ pc' = "denoise"
    /\ UNCHANGED << exitCode, failedAt, held, released, openVars, nRead, readError,
                    packet, encQ, out_packet, muxLog, histVars >>

\* Lines 151, 165: avcodec_receive_frame returns no frame (the decoder wants
\* more input; it may still hold the frames of its delay); the packet is
\* unreferenced and the next one is read.
ReceiveFrameNone ==
    /\ pc = "receive_frame"
    /\ Len(decQ) <= codec_context.delay
    /\ frame' = Null
    /\ packet' = NoPacket
    /\ pc' = "read"
    /\ UNCHANGED << exitCode, failedAt, held, released, openVars, nRead, readError,
                    decQ, encQ, out_packet, muxLog, histVars >>

\* Bytes of frame->data[0]: one plane of a planar frame, all channels of an
\* interleaved one.
PlaneBytes(f) ==
    f.n * BytesPerSample(codec_context.sample_fmt)
        * (IF IsPlanar(codec_context.sample_fmt) THEN 1 ELSE codec_context.channels)

\* speex_preprocess_run reads and rewrites frame_size 16-bit samples of the
\* buffer it is given, whatever the buffer holds.
SpeexBytes == preprocess_state * 2

\* Line 153: the call of speex_preprocess_run on frame->data[0], as recorded:
\* the buffer holds the frame's samples in the decoder's format and channel
\* count; nothing is converted, re-chunked or padded first.
DenoiseCall(f) ==
    [len |-> f.n, valid |-> f.n, pad |-> 0, channels |-> codec_context.channels,
     sample_fmt |-> codec_context.sample_fmt,
     group |-> [c \in 1..codec_context.channels |-> c], src |-> f.src]

\* Line 153: speex_preprocess_run returns.
DenoiseRun ==
    /\ pc = "denoise"
    /\ dnCalls' = dnCalls + 1
    /\ dnLast' = DenoiseCall(frame)
    /\ pc' = "send_frame"
    /\ UNCHANGED << exitCode, failedAt, held, released, openVars, loopVars, muxLog,
                    encCalls, encLast, totalDecoded, totalToEnc, decFails, encFails, nSkipped >>

\* The status of a process killed by SIGSEGV, as a shell reports it.
CrashStatus == 128 + 11

\* Line 153: Speex reads past the end of frame->data[0]; the access is
\* undefined and may end the process.
DenoiseCrash ==
    /\ pc = "denoise"
    /\ SpeexBytes > PlaneBytes(frame)
    /\ dnCalls' = dnCalls + 1
    /\ dnLast' = DenoiseCall(frame)
    /\ pc' = "exit"
    /\ exitCode' = CrashStatus
    /\ failedAt' = "denoise"
    /\ UNCHANGED << held, released, openVars, loopVars, muxLog, encCalls, encLast,
                    totalDecoded, totalToEnc, decFails, encFails, nSkipped >>

\* Line 156: the call of avcodec_send_frame on the decoder's frame, as
\* recorded: the frame is handed over as decoded and denoised in place.
EncodeCall(f) ==
    [len |-> f.n, valid |-> f.n, pad |-> 0, channels |-> codec_context.channels,
     sample_fmt |-> codec_context.sample_fmt,
     group |-> [c \in 1..codec_context.channels |-> c], src |-> f.src]

\* Line 156: avcodec_send_frame succeeds; the encoder holds one more packet.
SendFrameOk ==
    /\ pc = "send_frame"
    /\ encCalls' = encCalls + 1
    /\ encLast' = EncodeCall(frame)
    /\ totalToEnc' = totalToEnc + frame.n
    /\ encQ' = Append(encQ, [n |-> frame.n, src |-> frame.src])
    /\ pc' = "receive_packet"
    /\ UNCHANGED << exitCode, failedAt, held, released, openVars, nRead, readError,
                    packet, decQ, frame, out_packet, muxLog, dnCalls, dnLast,
                    totalDecoded, decFails, encFails, nSkipped >>

\* Line 156: avcodec_send_frame fails; the frame is dropped and the next
\* frame is asked of the decoder.
SendFrameFail ==
    /\ pc = "send_frame"
    /\ encCalls' = encCalls + 1
    /\ encLast' = EncodeCall(frame)
    /\ totalToEnc' = totalToEnc + frame.n
    /\ encFails' = encFails + 1
    /\ pc' = "receive_frame"
    /\ UNCHANGED << exitCode, failedAt, held, released, openVars, loopVars, muxLog,
                    dnCalls, dnLast, totalDecoded, decFails, nSkipped >>

\* Line 157: avcodec_receive_packet returns the encoder's oldest packet, when
\* the encoder holds more packets than its delay.
ReceivePacketOk ==
    /\ pc = "receive_packet"
    /\ Len(encQ) > out_codec_context.delay
    /\ out_packet' = Head(encQ)
    /\ encQ' = Tail(encQ)
    /\ pc' = "write_frame"
    /\ UNCHANGED << exitCode, failedAt, held, released, openVars, nRead, readError,
                    packet, decQ, frame, muxLog, histVars >>

\* Line 157: avcodec_receive_packet returns no packet (the encoder wants more
\* input; it may still hold the packets of its delay).
ReceivePacketNone ==
    /\ pc = "receive_packet"
    /\ Len(encQ) <= out_codec_context.delay
    /\ pc' = "receive_frame"
    /\ UNCHANGED << exitCode, failedAt, held, released, openVars, loopVars, muxLog,
                    histVars >>

\* Lines 158-159: av_interleaved_write_frame, then av_packet_unref.
WriteFrame ==
    /\ pc = "write_frame"
    /\ muxLog' = Append(muxLog, [kind |-> "packet", src |-> out_packet.src])
    /\ out_packet' = Null
    /\ pc' = "receive_packet"
    /\ UNCHANGED << exitCode, failedAt, held, released, openVars, nRead, readError,
                    packet, decQ, frame, encQ, histVars >>

\* ------------------------------------------------------------- closing
\* Line 169: av_write_trailer, right after the loop.
WriteTrailer ==
    /\ pc = "trailer"
    /\ muxLog' = Append(muxLog, [kind |-> "trailer", src |-> 0])
    /\ pc' = "cleanup"
    /\ UNCHANGED << exitCode, failedAt, held, released, openVars, loopVars, histVars >>

\* Lines 172-178, in the order of the calls.
CleanupOrder ==
    << "frame", "packet", "codec_context", "format_context", "preprocess_state",
       "out_codec_context", "output_format_context" >>

Cleanup ==
    /\ pc = "cleanup"
    /\ released' = released \o CleanupOrder
    /\ pc' = "return"
    /\ UNCHANGED << exitCode, failedAt, held, openVars, loopVars, muxLog, histVars >>

\* Lines 180-181: return 0.
Return ==
    /\ pc = "return"
    /\ exitCode' = ExitStatus(0)
    /\ pc' = "exit"
    /\ UNCHANGED << failedAt, held, released, openVars, loopVars, muxLog, histVars >>

\* ------------------------------------------------------------- specification
Next ==
    \/ CheckArgsFail
    \/ CheckArgsOk
    \/ OpenInputFail
    \/ OpenInputOk
    \/ FindStreamInfoFail
    \/ \E layout \in StreamLayouts : FindStreamInfoOk(layout)
    \/ NoAudioStream
    \/ FindAudioStream
    \/ FindDecoderFail
    \/ FindDecoderOk
    \/ OpenDecoderFail
    \/ \E profile \in DecoderProfiles : OpenDecoderOk(profile)
    \/ InitPreprocess
    \/ AllocOutputFail
    \/ AllocOutputOk
    \/ FindEncoderFail
    \/ FindEncoderOk
    \/ NewStreamFail
    \/ NewStreamOk
    \/ OpenEncoderFail
    \/ \E profile \in EncoderProfiles : OpenEncoderOk(profile)
    \/ OpenOutputFail
    \/ OpenOutputOk
    \/ WriteHeaderFail
    \/ WriteHeaderOk
    \/ \E pkt \in Packets(Len(streams), audio_stream_index) : ReadFrame(pkt, MaxPackets)
    \/ \E n \in 0..MaxPackets : ReadEof(n)
    \/ ReadError
    \/ SkipPacket
    \/ SendPacketFail
    \/ SendPacketOk
    \/ ReceiveFrameOk
    \/ ReceiveFrameNone
    \/ DenoiseRun
    \/ DenoiseCrash
    \/ SendFrameOk
    \/ SendFrameFail
    \/ ReceivePacketOk
    \/ ReceivePacketNone
    \/ WriteFrame
    \/ WriteTrailer
    \/ Cleanup
    \/ Return

Spec == Init /\ [][Next]_vars

\* main() is one sequential thread that is never suspended for good: whenever
\* it has a next step, it takes one.
FairSpec == Spec /\ WF_vars(Next)

\* ------------------------------------------------------------- scenario
\* The end-to-end scenario: a mono 8000 Hz input of 3 seconds (24000 samples
\* per channel) in canonical format, decoded in frames of 160, a decoder
\* context reporting frame_size 256 (the denoise frame length), an MP3
\* encoder of frame_size 1152; no library call fails and neither codec holds
\* output back.  Speex still reads 256 samples of each 160-sample buffer, so
\* the run may end at line 153.
ScenarioInput == [samples |-> 3 * 8000, frame_len |-> 160]
ScenarioPackets == ScenarioInput.samples \div ScenarioInput.frame_len
ScenarioDecoder ==
    [frame_size |-> 256, channels |-> 1, sample_fmt |-> "s16", delay |-> 0]
ScenarioEncoder == [frame_size |-> 1152, delay |-> 0]
ScenarioPacket ==
    [stream_index |-> 0, ok |-> TRUE, frames |-> << ScenarioInput.frame_len >>]

ScenarioNext ==
    \/ CheckArgsOk
    \/ OpenInputOk
    \/ FindStreamInfoOk(<< "audio" >>)
    \/ FindAudioStream
    \/ FindDecoderOk
    \/ OpenDecoderOk(ScenarioDecoder)
    \/ InitPreprocess
    \/ AllocOutputOk
    \/ FindEncoderOk
    \/ NewStreamOk
    \/ OpenEncoderOk(ScenarioEncoder)
    \/ OpenOutputOk
    \/ WriteHeaderOk
    \/ ReadFrame(ScenarioPacket, ScenarioPackets)
    \/ ReadEof(ScenarioPackets)
    \/ SendPacketOk
    \/ ReceiveFrameOk
    \/ ReceiveFrameNone
    \/ DenoiseRun
    \/ DenoiseCrash
    \/ SendFrameOk
    \/ ReceivePacketOk
    \/ ReceivePacketNone
    \/ WriteFrame
    \/ WriteTrailer
    \/ Cleanup
    \/ Return

ScenarioSpec == Init /\ [][ScenarioNext]_vars

\* ------------------------------------------------------------- properties
HeaderWritten == \E i \in 1..Len(muxLog) : muxLog[i].kind = "header"
TrailerWritten == \E i \in 1..Len(muxLog) : muxLog[i].kind = "trailer"
PacketsWritten == Cardinality({i \in 1..Len(muxLog) : muxLog[i].kind = "packet"})
\* The run ended with `return 0`.
Completed == pc = "exit" /\ exitCode = 0
CeilDiv(a, b) == (a + b - 1) \div b

\* C1: every buffer passed to speex_preprocess_run holds exactly the frame
\* length the Speex state was initialised with.
C1_DenoiseFrameLength ==
    dnCalls > 0 => dnLast.len = preprocess_state

\* C2: every frame passed to avcodec_send_frame holds exactly the encoder's
\* frame_size.
C2_EncoderFrameLength ==
    encCalls > 0 => encLast.len = out_codec_context.frame_size

\* C3: over a completed run that read its input to the end, the samples per channel handed to the encoder
\* are the samples decoded from the input plus a padding below the denoise
\* frame length plus a padding below the encoder frame length.
C3_SampleConservation ==
    Completed /\ ~readError =>
        \E p1 \in 0..(preprocess_state - 1), p2 \in 0..(out_codec_context.frame_size - 1) :
            totalToEnc = totalDecoded + p1 + p2

\* C4: when the trailer is written the decoder and the encoder have been
\* drained: neither still holds a frame or a packet.
C4_DrainBeforeTrailer ==
    TrailerWritten => decQ = << >> /\ encQ = << >>

\* C5: in the end-to-end scenario the encoder is called ceil(24000 / 1152) = 21
\* times and the last call's chunk carries padding.
C5_ScenarioEncoderCalls ==
    Completed =>
        /\ encCalls = CeilDiv(ScenarioInput.samples, out_codec_context.frame_size)
        /\ encLast.pad > 0

\* C6: at the end of a completed run, if the samples that reached the Denoise
\* Stage leave a remainder r > 0 of the denoise frame length N, the last
\* denoise chunk has length N and N - r padding samples; if r = 0 no padding
\* is emitted.
C6_FinalFlushPadding ==
    Completed /\ dnCalls > 0 =>
        LET r == totalToEnc % preprocess_state
        IN IF r > 0
           THEN dnLast.len = preprocess_state /\ dnLast.pad = preprocess_state - r
           ELSE dnLast.pad = 0

\* The steps of the opening sequence that precede the header.
OpenFailureSteps ==
    {"check_args", "open_input", "find_stream_info", "find_audio_stream",
     "find_decoder", "open_decoder", "alloc_output", "find_encoder", "new_stream",
     "open_encoder", "open_output"}

\* C7: a failure to open the input, find an audio stream, find or open the
\* decoder or the encoder, or open the output ends the process with a
\* nonzero exit code and nothing written to the output; exit code 0 occurs
\* only after the read loop ended and the trailer was written.
C7_OpenFailureFatal ==
    /\ failedAt \in OpenFailureSteps =>
           pc = "exit" /\ exitCode \in 1..255 /\ muxLog = << >>
    /\ exitCode = 0 =>
           /\ pc = "exit"
           /\ failedAt = ""
           /\ HeaderWritten
           /\ muxLog[Len(muxLog)].kind = "trailer"
           /\ packet = NoPacket

\* C7 witness: the encoder could not be opened and the process has exited
\* with status 255, nothing written.
C7_Witness ==
    failedAt = "open_encoder" /\ pc = "exit" /\ exitCode = 255 /\ muxLog = << >>

\* C8: every buffer passed to speex_preprocess_run is interleaved 16-bit
\* signed integer.
C8_CanonicalFormatToDenoise ==
    dnCalls > 0 => dnLast.sample_fmt = "s16"

\* C9: every frame handed to the encoder has the encoder's channel count; a
\* mono input reaches it as the pair (V, V), a stereo input unchanged.
C9_ChannelAdaptation ==
    encCalls > 0 =>
        /\ encLast.channels = out_codec_context.channels
        /\ codec_context.channels = 1 => encLast.group = << 1, 1 >>
        /\ codec_context.channels = 2 => encLast.group = << 1, 2 >>

\* C10: a run in which avcodec_send_packet or avcodec_send_frame failed and
\* which went on to return 0 has skipped only the failed contributions and
\* has drained before its trailer: every frame of the packets that did decode
\* was handed to the encoder, and every frame the encoder accepted has its
\* packet in the output.
C10_LocalRecovery ==
    Completed /\ decFails + encFails > 0 =>
        /\ TrailerWritten
        /\ totalToEnc = totalDecoded
        /\ PacketsWritten = encCalls - encFails

\* The input packets the written packets derive from, in the order written.
WrittenSources ==
    LET idx == {i \in 1..Len(muxLog) : muxLog[i].kind = "packet"}
    IN [i \in idx |-> muxLog[i].src]

C12_NonAudioIgnored ==
    [][(pc = "packet" /\ packet.stream_index # audio_stream_index) =>
          /\ pc' = "read"
          /\ packet' = NoPacket
          /\ UNCHANGED << exitCode, failedAt, codec_context, out_codec_context,
                          preprocess_state, decQ, frame, encQ, out_packet, muxLog,
                          dnCalls, dnLast, encCalls, encLast, totalDecoded,
                          totalToEnc, decFails, encFails >>]_vars

\* C12 witness: a packet of another stream was skipped and a later audio
\* packet went through to the output.
C12_Witness ==
    nSkipped > 0 /\ PacketsWritten > 0 /\ decFails = 0 /\ pc = "read"

\* How often resource r occurs in sequence s.
Count(s, r) == Cardinality({i \in 1..Len(s) : s[i] = r})
\* The place of resource r in sequence s.
Pos(s, r) == CHOOSE k \in 1..Len(s) : s[k] = r

\* C13: when the process has exited, by return 0 or by any early return,
\* every resource it had acquired has been released, exactly once (the Speex
\* state among them).
C13_ReleaseOnExit ==
    pc = "exit" => \A i \in 1..Len(held) : Count(released, held[i]) = 1

\* C14: resources are released only after the trailer is written, and in the
\* reverse of the order in which they were acquired.
C14_ReverseReleaseOrder ==
    /\ released # << >> => TrailerWritten
    /\ \A i, j \in 1..Len(released) :
           i < j => Pos(held, released[i]) > Pos(held, released[j])

\* C15: the output is a well-formed write sequence: nothing precedes the
\* header, nothing follows the trailer, a failed header write leaves nothing
\* written, and a run that wrote the header has written the trailer (once, as
\* the last write) when it ends.
C15_ContainerWellFormed ==
    /\ \A i \in 1..Len(muxLog) : muxLog[i].kind = "header" <=> i = 1
    /\ \A i \in 1..Len(muxLog) : muxLog[i].kind = "trailer" => i = Len(muxLog)
    /\ failedAt = "write_header" => muxLog = << >>
    /\ pc = "exit" /\ HeaderWritten => TrailerWritten

\* C16: after a read error the run goes on as after end of file: no error is
\* recorded, the trailer is written, the cleanup of lines 172-178 runs and
\* the exit code is 0.
C16_ReadErrorLikeEof ==
    readError =>
        /\ failedAt = ""
        /\ pc \in {"trailer", "cleanup", "return", "exit"}
        /\ pc # "trailer" => TrailerWritten /\ muxLog[Len(muxLog)].kind = "trailer"
        /\ pc \in {"return", "exit"} => released = CleanupOrder
        /\ pc = "exit" => exitCode = 0

\* C16 witness: a read error after at least one packet, and the process has
\* exited with code 0.
C16_Witness ==
    readError /\ nRead > 0 /\ pc = "exit" /\ exitCode = 0

\* C17: a run that has begun streaming eventually reaches CLOSED: the trailer
\* is written and the program has exited.
C17_Termination ==
    (pc = "read") ~> (pc = "exit" /\ TrailerWritten)

====
